---- MODULE Spec2Model ----
(***************************************************************************)
(* Crypto-Data-Service: the polling ingesters (streamer.py,                *)
(* futures_metrics_streamer.py, ob_streamer.py), the 15-minute backfill    *)
(* (backfill_15m.py) and the read API (api.py) as one state machine.       *)
(*                                                                         *)
(* Representation.                                                         *)
(*  - A table is the sequence of its rows in rowid order.  INSERT OR       *)
(*    REPLACE deletes the row holding the key and appends the new row.     *)
(*  - An identifier is a sequence of tokens: "1000PEPEUSDT" is             *)
(*    <<"1000", "PEPEUSDT">>, so that "1000" + symbol, startswith("1000")  *)
(*    and sym[4:] are computed, not assumed.                               *)
(*  - Prices and volumes are integers.                                     *)
(***************************************************************************)
EXTENDS Integers, Sequences, FiniteSets, TLC

VARIABLES
    proc,       \* which program of the repository this run executes
    db,         \* table name -> rows in rowid order
    now,        \* the wall clock, in ms after EpochMs
    invalid,    \* Streamer.invalid
    sPc,        \* Streamer.run: "loop" (in the for loop) or "sleep"
    sIdx,       \* Streamer.run: index into TOKENS of the next symbol
    wakeAt,     \* Streamer.run: when asyncio.sleep(60) returns
    sqlKeep,    \* whether the SQL engine accepts KEEP (FIRST ORDER BY ..)
    latest_ts,  \* api.latest_ts
    lastFetch,  \* history: the last iteration of Streamer.run's for loop
    sCycle,     \* history: what this cycle of Streamer.run did per symbol
    symbols,    \* main: what load_symbols() returned
    cycle,      \* history: the running poller's cycle (number, start, end)
    listed,     \* <<endpoint, contract>>: what the futures exchange lists
    FUTURES_MAP,\* futures_metrics_streamer.FUTURES_MAP
    learned,    \* history: how the primary try ended when the alias was set
    fPc,        \* futures main: "start", "gather", "sleep", "exit", "crashed"
    fWake,      \* futures main: when asyncio.sleep returns
    fTask,      \* futures: the fetch_for_symbol coroutine of each symbol
    oPc,        \* ob_streamer main: as fPc
    oWake,      \* ob_streamer main: when asyncio.sleep returns
    oTask,      \* ob_streamer: the process_symbol coroutine of each symbol
    norm,       \* _to_dt harness: the last pair normalized
    macro,      \* macro_fetch main: position, index into URLS, fetch log
    lastW       \* store harness: the last record written and how often

candleVars == <<now, invalid, sPc, sIdx, wakeAt, sqlKeep, latest_ts,
                lastFetch, sCycle>>
futVars == <<listed, FUTURES_MAP, learned, fPc, fWake, fTask>>
obVars == <<oPc, oWake, oTask>>
pollVars == <<symbols, futVars, obVars>>
progVars == <<candleVars, norm, macro, pollVars, cycle>>
vars == <<proc, db, progVars, lastW>>

---------------------------------------------------------------------------
(* Identifiers *)

K1000 == "1000"
BTCUSDT == <<"BTCUSDT">>
PEPEUSDT == <<"PEPEUSDT">>
K1000PEPEUSDT == <<K1000>> \o PEPEUSDT

---------------------------------------------------------------------------
(* The store: one table per metric family, PRIMARY KEY(symbol, timestamp). *)

Tables == {"candles", "candles_900s", "open_interest", "funding_rate",
           "ob_imbalance", "daily_indices"}

EmptyDb == [t \in Tables |-> <<>>]

\* The primary-key column that holds the time: "timestamp" in market_data.db,
\* "ts" in the other databases.
KeyOf(row) ==
    IF "timestamp" \in DOMAIN row THEN <<row.symbol, row.timestamp>>
    ELSE <<row.symbol, row.ts>>

RowsOf(tbl) == {tbl[i] : i \in 1..Len(tbl)}

\* A plain INSERT that keeps the conflicting row.
PlainInsert(tbl, row) == Append(tbl, row)

\* INSERT OR REPLACE INTO tbl ... VALUES row
InsertOrReplace(tbl, row) ==
    Append(SelectSeq(tbl, LAMBDA r : KeyOf(r) # KeyOf(row)), row)

\* Streamer._upsert(table, sym, c)
Streamer_upsert(d, table, sym, c) ==
    [d EXCEPT ![table] = InsertOrReplace(@,
        [symbol |-> sym, timestamp |-> c.timestamp, open |-> c.open,
         high |-> c.high, low |-> c.low, close |-> c.close,
         volume |-> c.volume])]

\* futures_metrics_streamer.upsert(table, symbol, ts, value)
Futures_upsert(d, table, symbol, ts, value) ==
    [d EXCEPT ![table] = InsertOrReplace(@,
        IF table = "open_interest"
        THEN [symbol |-> symbol, ts |-> ts, oi |-> value]
        ELSE [symbol |-> symbol, ts |-> ts, rate |-> value])]

\* ob_streamer.store(symbol, ts, bid_vol, ask_vol)
Ob_store(d, symbol, ts, bid_vol, ask_vol) ==
    [d EXCEPT !["ob_imbalance"] = InsertOrReplace(@,
        [symbol |-> symbol, ts |-> ts, bidVol |-> bid_vol, askVol |-> ask_vol])]

\* macro_fetch.upsert(symbol, ts, value)
Macro_upsert(d, symbol, ts, value) ==
    [d EXCEPT !["daily_indices"] = InsertOrReplace(@,
        [symbol |-> symbol, ts |-> ts, value |-> value])]

---------------------------------------------------------------------------
(* Time.                                                                   *)
(* The integers the program handles (1 700 000 123 456, 1e12) do not fit    *)
(* TLC's 32-bit integers.  A stored timestamp x stands for EpochMs + x,    *)
(* where EpochMs = 1 700 000 100 000 = 1888889 * 900000 is a multiple of   *)
(* every bucket width used (900, 60000, 900000), so floor division by a    *)
(* width commutes with the shift.  Where the magnitude itself decides      *)
(* (api._to_dt), an integer is the little-endian sequence of its base-1000 *)
(* digits: 1 700 000 000 000 is <<0, 0, 0, 700, 1>>.                        *)

RECURSIVE Big(_)
Big(n) == IF n < 1000 THEN <<n>> ELSE <<n % 1000>> \o Big(n \div 1000)

\* b * 1000
BigTimes1000(b) == IF b = <<0>> THEN b ELSE <<0>> \o b

\* floor(b / 1000); the remainder is b[1]
BigDiv1000(b) == IF Len(b) = 1 THEN <<0>> ELSE Tail(b)

\* a > b
BigGt(a, b) ==
    IF Len(a) # Len(b) THEN Len(a) > Len(b)
    ELSE \E i \in 1..Len(a) :
            a[i] > b[i] /\ \A j \in (i + 1)..Len(a) : a[j] = b[j]

\* b + n for a small n >= 0
RECURSIVE BigAddSmall(_, _)
BigAddSmall(b, n) ==
    IF b = <<>> THEN (IF n = 0 THEN <<>> ELSE Big(n))
    ELSE <<(b[1] + n) % 1000>> \o BigAddSmall(Tail(b), (b[1] + n) \div 1000)

BigDigit(b, i) == IF i <= Len(b) THEN b[i] ELSE 0

\* a - b as an integer, for a and b close to one another
RECURSIVE BigDiffFrom(_, _, _)
BigDiffFrom(a, b, i) ==
    IF i > Len(a) /\ i > Len(b) THEN 0
    ELSE (BigDigit(a, i) - BigDigit(b, i)) + 1000 * BigDiffFrom(a, b, i + 1)

BigDiff(a, b) == BigDiffFrom(a, b, 1)

EpochSec == 1888889 * 900
EpochMs == BigTimes1000(Big(EpochSec))

\* The integer a stored timestamp x stands for.
AbsMs(x) == BigAddSmall(EpochMs, x)

\* A datetime: whole seconds since 1970 and the milliseconds past them.
Datetime(sec, ms) == [sec |-> sec, ms |-> ms]

\* datetime.now(tz=utc) when the clock shows t
NowDt(t) == Datetime(BigDiv1000(AbsMs(t)), AbsMs(t)[1])

\* (a - b).total_seconds() * 1000
MsBetween(a, b) == BigDiff(a.sec, b.sec) * 1000 + (a.ms - b.ms)

\* api._to_dt: 1e12, and the last second datetime can hold (year 9999)
MsThreshold == <<0, 0, 0, 0, 1>>
MaxDatetimeSec == <<799, 300, 402, 253>>

\* A _to_dt without the unit test: every integer read as seconds.
To_dt_seconds_only(ts_int, nowDt) ==
    IF BigGt(ts_int, MaxDatetimeSec) THEN nowDt ELSE Datetime(ts_int, 0)

\* api._to_dt(ts_int), called when the clock shows nowDt
To_dt(ts_int, nowDt) ==
    LET isMs == BigGt(ts_int, MsThreshold)
        sec == IF isMs THEN BigDiv1000(ts_int) ELSE ts_int
        ms == IF isMs THEN ts_int[1] ELSE 0
    IN IF BigGt(sec, MaxDatetimeSec)
       THEN nowDt                    \* fromtimestamp raised: except branch
       ELSE Datetime(sec, ms)

\* The clock's grain in a run of each program: 65 s beside the candle
\* streamer and the API (130 s is two ticks), half a polling interval
\* beside the other pollers.
TickMs(p) ==
    CASE p = "futures" -> 150 * 1000
      [] p = "orderbook" -> 15 * 1000
      [] OTHER -> 65 * 1000
MaxTicks == 2
StartTimes == {0, 13 * 60000}

---------------------------------------------------------------------------
(* streamer.py: the 1-minute candle streamer.                              *)

\* Python's None where a value may be missing: <<>> for None, <<v>> for v.
None == <<>>
Some(v) == <<v>>

\* streamer.TOKENS: the catalog, sorted
TOKENS == <<K1000PEPEUSDT, BTCUSDT>>

TokenSet == {TOKENS[i] : i \in 1..Len(TOKENS)}

AGG_INT == 900
SLEEP_SEC == 60
KLINE_MS == 60000

\* What one exchange call can come to: data, an error whose text holds
\* "Invalid symbol", any other exception (timeout, rate limit, 5xx, an
\* empty list).
Outcomes == {"data", "invalid", "error"}

\* The OHLCV values the exchange reports, minute after minute.
Feed ==
    << [open |-> 10, high |-> 12, low |-> 9, close |-> 11, volume |-> 5],
       [open |-> 11, high |-> 13, low |-> 8, close |-> 9, volume |-> 6],
       [open |-> 9, high |-> 10, low |-> 7, close |-> 10, volume |-> 4] >>

Klines(t) == {Feed[((t \div KLINE_MS) % Len(Feed)) + 1]}

\* get_klines(interval='1m', limit=1)[0] at clock t: the running minute.
Kline(t, k) ==
    [timestamp |-> (t \div KLINE_MS) * KLINE_MS, open |-> k.open,
     high |-> k.high, low |-> k.low, close |-> k.close, volume |-> k.volume]

\* sym.startswith("1000") and sym[4:]
StartsWith1000(sym) == Len(sym) > 0 /\ Head(sym) = K1000
BaseSym(sym) == Tail(sym)

\* A _fetch that blacklists only on a first answer that is not data and
\* leaves the symbol in the rotation after a failed fallback.
Streamer_fetch_lenient(sym, o1, o2, c) ==
    IF o1 = "data"
    THEN [c |-> Some(c), bad |-> FALSE, fallback |-> "none", calls |-> 1]
    ELSE IF o1 = "invalid" /\ StartsWith1000(sym)
    THEN [c |-> IF o2 = "data" THEN Some(c) ELSE None,
          bad |-> FALSE, fallback |-> o2, calls |-> 2]
    ELSE [c |-> None, bad |-> (o1 = "invalid"), fallback |-> "none",
          calls |-> 1]

\* Streamer._fetch(sym) when the exchange answers o1 to the call for sym
\* and o2 to the call for the base symbol: the candle returned (or None),
\* whether sym went into self.invalid, the calls made.
Streamer_fetch(sym, o1, o2, c) ==
    IF o1 = "data"
    THEN [c |-> Some(c), bad |-> FALSE, fallback |-> "none", calls |-> 1]
    ELSE IF o1 = "invalid" /\ StartsWith1000(sym)
    THEN IF o2 = "data"
         THEN [c |-> Some(c), bad |-> FALSE, fallback |-> o2, calls |-> 2]
         ELSE [c |-> None, bad |-> TRUE, fallback |-> o2, calls |-> 2]
    ELSE [c |-> None, bad |-> TRUE, fallback |-> "none", calls |-> 1]

\* run: bucket['timestamp'] = (c['timestamp'] // AGG_INT) * AGG_INT
StreamerBucket(t) == (t \div AGG_INT) * AGG_INT

\* _upsert: sqlite3.connect, execute and commit may raise (the database
\* file is shared with backfill_15m.py and the API); `stored` is the number
\* of the two upserts of a candle that ran before one raised.
StoreOutcomes == {0, 1, 2}
StoreSome(d, s, c, stored) ==
    IF stored = 0 THEN d ELSE Streamer_upsert(d, "candles", s, c)

\* run: the two upserts of a fetched candle
StoreCandle(d, s, c) ==
    Streamer_upsert(Streamer_upsert(d, "candles", s, c), "candles_900s", s,
                    [c EXCEPT !.timestamp = StreamerBucket(c.timestamp)])

\* run: nothing done yet in this pass over TOKENS
NewCycle == [s \in TokenSet |-> [st |-> "pending", ts |-> 0]]

\* A poller enters its next pass over the catalog at clock t.
StartCycle(c, t) == [n |-> c.n + 1, start |-> t, end |-> t]

\* run: self.client = await AsyncClient.create(), which may raise; then
\* the first pass over TOKENS
StreamerMain ==
    /\ proc = "candles" /\ sPc = "start"
    /\ \E created \in BOOLEAN :
         /\ sPc' = IF created THEN "loop" ELSE "noclient"
         /\ cycle' = IF created THEN StartCycle(cycle, now) ELSE cycle
    /\ UNCHANGED <<proc, db, now, invalid, sIdx, wakeAt, sqlKeep, latest_ts,
                   lastFetch, sCycle, norm, macro, lastW, pollVars>>

\* run: `if s in self.invalid: continue`
StreamerSkip ==
    /\ proc = "candles" /\ sPc = "loop" /\ sIdx <= Len(TOKENS)
    /\ TOKENS[sIdx] \in invalid
    /\ sIdx' = sIdx + 1
    /\ lastFetch' = [sym |-> TOKENS[sIdx], primary |-> "skipped",
                     fallback |-> "none", got |-> FALSE]
    /\ sCycle' = [sCycle EXCEPT ![TOKENS[sIdx]] = [st |-> "skipped", ts |-> 0]]
    /\ UNCHANGED <<proc, db, now, invalid, sPc, wakeAt, sqlKeep, latest_ts,
                   norm, macro, lastW,
                   pollVars, cycle>>

\* run: one iteration of the for loop that fetches
StreamerIter ==
    /\ proc = "candles" /\ sPc = "loop" /\ sIdx <= Len(TOKENS)
    /\ TOKENS[sIdx] \notin invalid
    /\ \E o1 \in Outcomes, o2 \in Outcomes, k \in Klines(now) :
       \E stored \in (IF o1 = "error" THEN {2} ELSE StoreOutcomes) :
         LET s == TOKENS[sIdx]
             f == Streamer_fetch(s, o1, o2, Kline(now, k))
             raised == f.c # None /\ stored < 2
         IN /\ invalid' = IF f.bad THEN invalid \cup {s} ELSE invalid
            /\ db' = IF f.c = None THEN db
                      ELSE IF raised THEN StoreSome(db, s, f.c[1], stored)
                      ELSE StoreCandle(db, s, f.c[1])
            /\ sPc' = IF raised THEN "crashed" ELSE sPc
            /\ lastFetch' = [sym |-> s, primary |-> o1,
                             fallback |-> f.fallback, got |-> f.c # None]
            /\ sCycle' = [sCycle EXCEPT ![s] =
                  IF o1 = "data"
                     \/ (StartsWith1000(s) /\ o1 = "invalid" /\ o2 = "data")
                  THEN [st |-> "fetched", ts |-> Kline(now, k).timestamp]
                  ELSE [st |-> "failed", ts |-> 0]]
    /\ sIdx' = sIdx + 1
    /\ UNCHANGED <<proc, now, wakeAt, sqlKeep, latest_ts, norm, macro, lastW,
                   pollVars, cycle>>

\* run: log.info("stored ..."); await asyncio.sleep(60)
StreamerSleep ==
    /\ proc = "candles" /\ sPc = "loop" /\ sIdx > Len(TOKENS)
    /\ sPc' = "sleep"
    /\ wakeAt' = now + SLEEP_SEC * 1000
    /\ cycle' = [cycle EXCEPT !.end = now]
    /\ UNCHANGED <<proc, db, now, invalid, sIdx, sqlKeep, latest_ts,
                   lastFetch, sCycle, norm, macro, lastW,
                   pollVars>>

\* run: the sleep is over, `for s in list(TOKENS)` starts again
StreamerWake ==
    /\ proc = "candles" /\ sPc = "sleep" /\ now >= wakeAt
    /\ sPc' = "loop"
    /\ sIdx' = 1
    /\ sCycle' = NewCycle
    /\ cycle' = StartCycle(cycle, now)
    /\ UNCHANGED <<proc, db, now, invalid, wakeAt, sqlKeep, latest_ts,
                   lastFetch, norm, macro, lastW, pollVars>>

\* Time passes, at a suspension point: a request in flight or a sleep, not
\* in the middle of gather's starting the tasks.
Tick ==
    /\ \E s \in StartTimes :
          s <= now /\ now + TickMs(proc) <= s + MaxTicks * TickMs(proc)
    /\ ~(proc = "futures" /\ fPc = "gather"
          /\ \E i \in 1..Len(symbols) : fTask[symbols[i]].pc = "idle")
    /\ ~(proc = "orderbook" /\ oPc = "gather"
          /\ \E i \in 1..Len(symbols) : oTask[symbols[i]].pc = "idle")
    /\ now' = now + TickMs(proc)
    /\ UNCHANGED <<proc, db, invalid, sPc, sIdx, wakeAt, sqlKeep, latest_ts,
                   lastFetch, sCycle, norm, macro, lastW,
                   pollVars, cycle>>

---------------------------------------------------------------------------
(* backfill_15m.py: candles -> candles_900s                                *)

BACKFILL_MS == 900000

\* (c.timestamp/900000)*900000 AS ts_bucket
BackfillBucket(t) == (t \div BACKFILL_MS) * BACKFILL_MS

\* GROUP BY symbol, ts_bucket: the groups, and the order they come out in
\* (the engine sorts to group).
GroupKeys(c) == {<<r.symbol, BackfillBucket(r.timestamp)>> : r \in RowsOf(c)}

SymRank(sym) == CHOOSE i \in 1..Len(TOKENS) : TOKENS[i] = sym

KeyLess(a, b) ==
    \/ SymRank(a[1]) < SymRank(b[1])
    \/ a[1] = b[1] /\ a[2] < b[2]

RECURSIVE SortedKeys(_)
SortedKeys(S) ==
    IF S = {} THEN <<>>
    ELSE LET m == CHOOSE x \in S : \A y \in S \ {x} : KeyLess(x, y)
         IN <<m>> \o SortedKeys(S \ {m})

\* The rows of one group, as the scan of candles meets them.
GroupRows(c, key) ==
    SelectSeq(c, LAMBDA r : r.symbol = key[1]
                            /\ BackfillBucket(r.timestamp) = key[2])

Min(a, b) == IF a <= b THEN a ELSE b
Max(a, b) == IF a >= b THEN a ELSE b

AggInit(r) ==
    [first |-> r.timestamp, open |-> r.open, high |-> r.high, low |-> r.low,
     last |-> r.timestamp, close |-> r.close, volume |-> r.volume]

\* An aggregate step that takes open and close in scan order.
AggStepScanOrder(acc, r) ==
    [first |-> Min(acc.first, r.timestamp),
     open |-> acc.open,
     high |-> Max(acc.high, r.high),
     low |-> Min(acc.low, r.low),
     last |-> Max(acc.last, r.timestamp),
     close |-> r.close,
     volume |-> acc.volume + r.volume]

\* One more row into the aggregates of its group:
\*   MIN(open) KEEP (FIRST ORDER BY ts_in), MAX(high), MIN(low),
\*   MIN(close) KEEP (LAST ORDER BY ts_in), SUM(volume)
\* (symbol, timestamp) is the key of candles, so no two rows of a group
\* share ts_in.
AggStep(acc, r) ==
    [first |-> Min(acc.first, r.timestamp),
     open |-> IF r.timestamp < acc.first THEN r.open ELSE acc.open,
     high |-> Max(acc.high, r.high),
     low |-> Min(acc.low, r.low),
     last |-> Max(acc.last, r.timestamp),
     close |-> IF r.timestamp > acc.last THEN r.close ELSE acc.close,
     volume |-> acc.volume + r.volume]

RECURSIVE AggFold(_, _)
AggFold(acc, g) ==
    IF g = <<>> THEN acc ELSE AggFold(AggStep(acc, Head(g)), Tail(g))

AggRow(key, g) ==
    LET a == AggFold(AggInit(Head(g)), Tail(g))
    IN [symbol |-> key[1], timestamp |-> key[2], open |-> a.open,
        high |-> a.high, low |-> a.low, close |-> a.close,
        volume |-> a.volume]

RECURSIVE InsertAll(_, _)
InsertAll(tbl, rows) ==
    IF rows = <<>> THEN tbl
    ELSE InsertAll(InsertOrReplace(tbl, Head(rows)), Tail(rows))

\* The INSERT OR REPLACE INTO candles_900s ... SELECT ... GROUP BY
Backfill15m(d) ==
    LET keys == SortedKeys(GroupKeys(d["candles"]))
        rows == [i \in 1..Len(keys) |->
                    AggRow(keys[i], GroupRows(d["candles"], keys[i]))]
    IN [d EXCEPT !["candles_900s"] = InsertAll(@, rows)]

\* main(): the script, run on an engine that takes the KEEP aggregates
\* (keep) or on one that does not.  SQLite does not: KEEP (FIRST ORDER BY ..)
\* is not in its grammar, the INSERT raises sqlite3.OperationalError and
\* nothing is written.
Backfill_main(d, keep) == IF keep THEN Backfill15m(d) ELSE d

Backfill ==
    /\ proc \in {"candles", "backfill"}
    /\ db' = Backfill_main(db, sqlKeep)
    /\ UNCHANGED <<proc, progVars, lastW>>

---------------------------------------------------------------------------
(* api.py: the read API                                                    *)

FRESH_SEC == 120

Reverse(s) == [i \in 1..Len(s) |-> s[Len(s) + 1 - i]]

\* ORDER BY timestamp DESC
RECURSIVE OrderDesc(_)
OrderDesc(S) ==
    IF S = {} THEN <<>>
    ELSE LET m == CHOOSE x \in S : \A y \in S : y.timestamp <= x.timestamp
         IN <<m>> \o OrderDesc(S \ {m})

\* LIMIT n (a negative n is no limit)
Limit(s, n) == IF n < 0 \/ n >= Len(s) THEN s ELSE SubSeq(s, 1, n)

\* SELECT ... FROM candles WHERE symbol=? ORDER BY timestamp DESC LIMIT ?
QueryCandles(d, symbol, limit) ==
    LET rows == Limit(OrderDesc({r \in RowsOf(d["candles"]) :
                                    r.symbol = symbol}), limit)
    IN [i \in 1..Len(rows) |->
          [ts |-> rows[i].timestamp, open |-> rows[i].open,
           high |-> rows[i].high, low |-> rows[i].low,
           close |-> rows[i].close, vol |-> rows[i].volume]]

\* get_candles(symbol, tf, limit): the response
Get_candles(d, symbol, tf, limit) ==
    LET candles == QueryCandles(d, symbol, limit)
    IN [op |-> "get_candles", symbol |-> symbol, tf |-> tf,
        limit |-> limit, count |-> Len(candles),
        candles |-> Reverse(candles),
        latest_time |-> IF candles # <<>> THEN Some(candles[1].ts)
                        ELSE None]

\* A get_candles that takes the oldest of the returned rows.
Latest_after_oldest(d, symbol, limit, old, t) ==
    LET candles == QueryCandles(d, symbol, limit)
    IN IF candles # <<>>
       THEN To_dt(AbsMs(candles[Len(candles)].ts), NowDt(t)) ELSE old

\* get_candles: what it leaves in latest_ts
Latest_after(d, symbol, limit, old, t) ==
    LET candles == QueryCandles(d, symbol, limit)
    IN IF candles # <<>> THEN To_dt(AbsMs(candles[1].ts), NowDt(t)) ELSE old

\* health(): the response
Health(t, latest) ==
    LET age == MsBetween(NowDt(t), latest)
    IN [op |-> "health", ok |-> age < FRESH_SEC * 1000, age_ms |-> age]

Tfs == {"1m", "15m"}
Limits == {1, 2, 200}

ApiGetCandles ==
    /\ proc = "candles"
    /\ \E i \in 1..Len(TOKENS), limit \in Limits :
         latest_ts' = Latest_after(db, TOKENS[i], limit, latest_ts, now)
    /\ UNCHANGED <<proc, db, now, invalid, sPc, sIdx, wakeAt, sqlKeep,
                   lastFetch, sCycle, norm, macro, lastW,
                   pollVars, cycle>>

\* The module is imported: latest_ts = datetime.now(tz=timezone.utc)
ApiStart ==
    /\ proc = "candles"
    /\ latest_ts' = NowDt(now)
    /\ UNCHANGED <<proc, db, now, invalid, sPc, sIdx, wakeAt, sqlKeep,
                   lastFetch, sCycle, norm, macro, lastW,
                   pollVars, cycle>>

ApiHealth ==
    /\ proc = "candles"
    /\ Health(now, latest_ts).op = "health"
    /\ UNCHANGED vars

---------------------------------------------------------------------------
(* futures_metrics_streamer.py: open interest and funding rate             *)

\* load_symbols() on a bucket_mapping.csv with two high/ultra symbols
CATALOG == <<BTCUSDT, PEPEUSDT>>
CatalogSet == {CATALOG[i] : i \in 1..Len(CATALOG)}
SymbolSet(syms) == {syms[i] : i \in 1..Len(syms)}

\* asyncio.gather(*tasks): the tasks are started in list order, each
\* running up to its first request, before any answer is handled.  The
\* symbol whose coroutine starts next, if some have not started:
Dispatching(tasks, syms) == \E s \in SymbolSet(syms) : tasks[s].pc = "idle"
NextToStart(tasks, syms) ==
    syms[CHOOSE i \in 1..Len(syms) :
            /\ tasks[syms[i]].pc = "idle"
            /\ \A j \in 1..(i - 1) : tasks[syms[j]].pc # "idle"]

\* A gather that returns as soon as one task is done.
GatherReturns_first(tasks, syms) ==
    \E s \in SymbolSet(syms) : tasks[s].pc = "done"

\* asyncio.gather(*tasks) returns when every task is done.
GatherReturns(tasks, syms) ==
    \A s \in SymbolSet(syms) : tasks[s].pc = "done"

FUT_INTERVAL_SECONDS == 300

\* A fetch_for_symbol coroutine not yet run: where it stands, fut_sym, the
\* identifiers queried so far, how each _try ended, when the running _try
\* was entered, the rows its answers called for, what the two calls of the
\* first _try came to ("none" for a call that was not made).
IdleTask == [pc |-> "idle", q |-> <<>>, calls |-> <<>>, r1 |-> "none",
             r2 |-> "none", t0 |-> 0, wrote |-> {}, ans |-> <<>>]

NoAlias == [s \in CatalogSet |-> None]

\* f"1000{symbol}"
Alt(symbol) == <<K1000>> \o symbol

\* The two endpoints _try calls, named by the table each one feeds.
Families == {"open_interest", "funding_rate"}
FutIds == CatalogSet \cup {Alt(x) : x \in CatalogSet}

\* An exchange on which both endpoints list the contracts L.
Listing(L) == {<<f, q>> : f \in Families, q \in L}

\* What a futures call for identifier q can come to: data or an error
\* (timeout, rate limit, 5xx) when the endpoint lists q,
\* BinanceAPIException -1121 ("invalid") or an error when it does not.
FutOutcomes(family, q) ==
    IF <<family, q>> \in listed THEN {"data", "error"}
    ELSE {"invalid", "error"}

\* A lookup that never consults the cache.
FutSym_nocache(map, symbol) == symbol

\* FUTURES_MAP.get(symbol, symbol)
FutSym(map, symbol) == IF map[symbol] # None THEN map[symbol][1] ELSE symbol

\* A _try that stores under the identifier it queried.
RowSymbol_queried(symbol, q) == q

\* _try(symbol_to_query): `await upsert(table, symbol, ...)` passes the
\* enclosing fetch_for_symbol's symbol, not symbol_to_query.
RowSymbol(symbol, q) == symbol

\* fetch_for_symbol._try, entered at t0 and answered at t, the exchange
\* answering o1 to futures_open_interest and o2 to futures_premium_index:
\* the store it leaves and how it ends ("true", "false", or "raised", the
\* -1121 re-raised).  fr["time"] is the exchange's clock, here t.
Try(d, symbol, q, o1, o2, t0, t) ==
    LET d1 == IF o1 = "data"
              THEN Futures_upsert(d, "open_interest", RowSymbol(symbol, q),
                                  t0, 100)
              ELSE d
        d2 == IF o2 = "data"
              THEN Futures_upsert(d1, "funding_rate", RowSymbol(symbol, q),
                                  t, 1)
              ELSE d1
    IN IF o1 = "invalid" THEN [db |-> d, res |-> "raised"]
       ELSE IF o2 = "invalid" THEN [db |-> d1, res |-> "raised"]
       ELSE [db |-> d2,
             res |-> IF o1 = "data" \/ o2 = "data" THEN "true" ELSE "false"]

\* The rows the exchange's answers call for.
Answers(o1, o2, t0, t) ==
    (IF o1 = "data" THEN {<<"open_interest", t0>>} ELSE {})
    \cup (IF o1 # "invalid" /\ o2 = "data" THEN {<<"funding_rate", t>>}
          ELSE {})

\* fetch_for_symbol after _try(fut_sym) ended r1: is _try(alt) next?
\* (`except BinanceAPIException: success = False`, `if not success`)
NeedsFallback(r1) == r1 # "true"

\* fetch_for_symbol: `if await _try(alt): FUTURES_MAP[symbol] = alt`
AliasAfter(map, symbol, r2) ==
    IF r2 = "true" THEN [map EXCEPT ![symbol] = Some(Alt(symbol))] ELSE map

\* A fetch_for_symbol whose second try has no except clause.
EscapesFallback_uncaught(r2) == r2 = "raised"

\* fetch_for_symbol: does an exception leave the coroutine after _try(alt)
\* ended r2?  `except BinanceAPIException` takes the only one _try raises.
EscapesFallback(r2) == FALSE

\* main, up to the loop: `if not symbols: return`, then
\* `client = await AsyncClient.create()`, which raises when the exchange
\* cannot be reached.
MainEnters(syms, created) ==
    IF syms = <<>> THEN "exit"
    ELSE IF created THEN "gather" ELSE "noclient"

\* main: symbols = load_symbols(); `if not symbols: return`
FutMain ==
    /\ proc = "futures" /\ fPc = "start"
    /\ \E created \in BOOLEAN :
         /\ fPc' = MainEnters(symbols, created)
         /\ cycle' = IF MainEnters(symbols, created) = "gather"
                      THEN StartCycle(cycle, now) ELSE cycle
    /\ UNCHANGED <<proc, db, symbols, listed, FUTURES_MAP, learned, fWake, fTask,
                   candleVars, obVars, norm, macro, lastW>>

\* gather: the coroutine of symbol s runs up to its first request
FutStart(s) ==
    /\ proc = "futures" /\ fPc = "gather"
    /\ Dispatching(fTask, symbols) /\ s = NextToStart(fTask, symbols)
    /\ fTask' = [fTask EXCEPT ![s] =
                    [IdleTask EXCEPT !.pc = "primary",
                                     !.q = FutSym(FUTURES_MAP, s),
                                     !.calls = <<FutSym(FUTURES_MAP, s)>>,
                                     !.t0 = now]]
    /\ UNCHANGED <<proc, db, symbols, listed, FUTURES_MAP, learned, fPc, fWake,
                   candleVars, obVars, norm, macro, lastW, cycle>>

\* `success = await _try(fut_sym)` comes back
FutPrimary(s) ==
    /\ proc = "futures" /\ fPc = "gather" /\ fTask[s].pc = "primary"
    /\ ~Dispatching(fTask, symbols)
    /\ \E o1 \in FutOutcomes("open_interest", fTask[s].q),
          o2 \in FutOutcomes("funding_rate", fTask[s].q) :
         LET r == Try(db, s, fTask[s].q, o1, o2, fTask[s].t0, now)
         IN /\ db' = r.db
            /\ fTask' = [fTask EXCEPT ![s] =
                 [@ EXCEPT !.r1 = r.res,
                    !.ans = <<o1, IF o1 = "invalid" THEN "none" ELSE o2>>,
                    !.pc = IF NeedsFallback(r.res) THEN "fallback" ELSE "done",
                    !.calls = IF NeedsFallback(r.res)
                              THEN Append(@, Alt(s)) ELSE @,
                    !.wrote = @ \cup Answers(o1, o2, fTask[s].t0, now),
                    !.t0 = now]]
    /\ UNCHANGED <<proc, symbols, listed, FUTURES_MAP, learned, fPc, fWake,
                   candleVars, obVars, norm, macro, lastW, cycle>>

\* `if await _try(alt)` comes back
FutFallback(s) ==
    /\ proc = "futures" /\ fPc = "gather" /\ fTask[s].pc = "fallback"
    /\ ~Dispatching(fTask, symbols)
    /\ \E o1 \in FutOutcomes("open_interest", Alt(s)),
          o2 \in FutOutcomes("funding_rate", Alt(s)) :
         LET r == Try(db, s, Alt(s), o1, o2, fTask[s].t0, now)
         IN /\ db' = r.db
            /\ FUTURES_MAP' = AliasAfter(FUTURES_MAP, s, r.res)
            /\ learned' = IF r.res = "true" /\ FUTURES_MAP[s] = None
                          THEN [learned EXCEPT ![s] = fTask[s].r1]
                          ELSE learned
            /\ fTask' = [fTask EXCEPT ![s] =
                 [@ EXCEPT !.r2 = r.res,
                    !.pc = IF EscapesFallback(r.res) THEN "raised"
                           ELSE "done",
                    !.wrote = @ \cup Answers(o1, o2, fTask[s].t0, now)]]
    /\ UNCHANGED <<proc, symbols, listed, fPc, fWake, candleVars, obVars, norm, macro,
                   lastW, cycle>>

\* `await asyncio.gather(*tasks)` returns, or raises what a task raised;
\* then `await asyncio.sleep(INTERVAL_SECONDS)`
FutGather ==
    /\ proc = "futures" /\ fPc = "gather"
    /\ \/ \E s \in SymbolSet(symbols) : fTask[s].pc = "raised"
       \/ GatherReturns(fTask, symbols)
    /\ fPc' = IF \E s \in SymbolSet(symbols) : fTask[s].pc = "raised"
              THEN "crashed" ELSE "sleep"
    /\ fWake' = now + FUT_INTERVAL_SECONDS * 1000
    /\ cycle' = [cycle EXCEPT !.end = now]
    /\ UNCHANGED <<proc, db, symbols, listed, FUTURES_MAP, learned, fTask,
                   candleVars, obVars, norm, macro, lastW>>

\* the sleep is over: `while True` builds the next cycle's tasks
FutWake ==
    /\ proc = "futures" /\ fPc = "sleep" /\ now >= fWake
    /\ fPc' = "gather"
    /\ fTask' = [s \in CatalogSet |-> IdleTask]
    /\ cycle' = StartCycle(cycle, now)
    /\ UNCHANGED <<proc, db, symbols, listed, FUTURES_MAP, learned, fWake,
                   candleVars, obVars, norm, macro, lastW>>

---------------------------------------------------------------------------
(* ob_streamer.py: order-book depth                                        *)

OB_INTERVAL_SECONDS == 30

\* depth["bids"], depth["asks"]: the quantities of the levels returned
Depths == { [bids |-> <<2, 3>>, asks |-> <<4>>],
            [bids |-> <<1>>, asks |-> <<1, 1>>] }

RECURSIVE SumSeq(_)
SumSeq(q) == IF q = <<>> THEN 0 ELSE Head(q) + SumSeq(Tail(q))

ObIdle == [pc |-> "idle", res |-> "none", at |-> 0]

\* process_symbol(client, symbol) at clock t, get_order_book answering o:
\* the store it leaves and how it ends.  `except Exception` takes every
\* failure.
Process_symbol(d, symbol, o, depth, t) ==
    IF o = "data"
    THEN [db |-> Ob_store(d, symbol, t, SumSeq(depth.bids),
                          SumSeq(depth.asks)),
          res |-> "stored"]
    ELSE [db |-> d, res |-> "failed"]

\* main: symbols = load_symbols(); `if not symbols: return`
ObMain ==
    /\ proc = "orderbook" /\ oPc = "start"
    /\ \E created \in BOOLEAN :
         /\ oPc' = MainEnters(symbols, created)
         /\ cycle' = IF MainEnters(symbols, created) = "gather"
                      THEN StartCycle(cycle, now) ELSE cycle
    /\ UNCHANGED <<proc, db, symbols, oWake, oTask, candleVars, futVars,
                   norm, macro, lastW>>

\* gather: the coroutine of symbol s runs up to its request
ObStart(s) ==
    /\ proc = "orderbook" /\ oPc = "gather"
    /\ Dispatching(oTask, symbols) /\ s = NextToStart(oTask, symbols)
    /\ oTask' = [oTask EXCEPT ![s] = [ObIdle EXCEPT !.pc = "fetching"]]
    /\ UNCHANGED <<proc, db, symbols, oPc, oWake, candleVars, futVars,
                   norm, macro, lastW, cycle>>

\* get_order_book comes back and the rest of process_symbol runs
ObProcess(s) ==
    /\ proc = "orderbook" /\ oPc = "gather" /\ oTask[s].pc = "fetching"
    /\ ~Dispatching(oTask, symbols)
    /\ \E o \in {"data", "error"}, depth \in Depths :
         LET r == Process_symbol(db, s, o, depth, now)
         IN /\ db' = r.db
            /\ oTask' = [oTask EXCEPT ![s] =
                  [pc |-> IF r.res = "raised" THEN "raised" ELSE "done",
                   res |-> IF o = "data" THEN "fetched" ELSE "failed",
                   at |-> now]]
    /\ UNCHANGED <<proc, symbols, oPc, oWake, candleVars, futVars, norm, macro,
                   lastW, cycle>>

\* `await asyncio.gather(*tasks)`, then `await asyncio.sleep(INTERVAL_SECONDS)`
ObGather ==
    /\ proc = "orderbook" /\ oPc = "gather"
    /\ \/ \E s \in SymbolSet(symbols) : oTask[s].pc = "raised"
       \/ GatherReturns(oTask, symbols)
    /\ oPc' = IF \E s \in SymbolSet(symbols) : oTask[s].pc = "raised"
              THEN "crashed" ELSE "sleep"
    /\ oWake' = now + OB_INTERVAL_SECONDS * 1000
    /\ cycle' = [cycle EXCEPT !.end = now]
    /\ UNCHANGED <<proc, db, symbols, oTask, candleVars, futVars, norm, macro,
                   lastW>>

\* the sleep is over: `while True` builds the next cycle's tasks
ObWake ==
    /\ proc = "orderbook" /\ oPc = "sleep" /\ now >= oWake
    /\ oPc' = "gather"
    /\ oTask' = [s \in CatalogSet |-> ObIdle]
    /\ cycle' = StartCycle(cycle, now)
    /\ UNCHANGED <<proc, db, symbols, oWake, candleVars, futVars, norm, macro,
                   lastW>>

---------------------------------------------------------------------------
(* macro_fetch.py: the daily macro indices.                                *)

DXY == <<"DXY">>
VIX == <<"VIX">>

\* URLS, in the order `for sym, url in URLS.items()` visits it
URLS == <<DXY, VIX>>

\* What pd.read_csv(url) and the lines after it come to: a last row with a
\* %Y-%m-%d Date and a numeric Close ("ok"); an exception of read_csv
\* ("fail"); an empty frame ("empty"); no Date or Close column, or a Close
\* float() rejects ("nocol"); a numeric Close beside a Date that is not
\* %Y-%m-%d, such as nan or a date with a time ("baddate").
PrimaryOutcomes == {"ok", "fail", "empty", "nocol", "baddate"}

\* yf.Ticker(..).history(period="1d"): a row, or an exception (an empty
\* history raises at iloc[-1]).
SecondaryOutcomes == {"ok", "fail"}

\* The dates a source reports, in days, and the closes.
MacroDates == {0, 1}
MacroCloses == {20}

\* int(time.mktime(strptime(date_str, "%Y-%m-%d").timetuple()) * 1000)
DayTs(date) == date * 86400000

\* fetch_symbol: does the first try block raise, so that the except clause
\* with the yfinance fallback runs?
CsvRaises(p) == p \in {"fail", "empty", "nocol"}

\* fetch_symbol(symbol, url) with the primary answering p and the secondary
\* answering s: the store it leaves, what the secondary was asked, the rows
\* upserted, and whether an exception leaves the function (line 61's
\* strptime stands outside both try blocks).
Fetch_symbol(d, symbol, p, s, date, close) ==
    LET asked == IF CsvRaises(p) THEN s ELSE "none"
        yields == p = "ok" \/ (CsvRaises(p) /\ s = "ok")
    IN [db |-> IF yields THEN Macro_upsert(d, symbol, DayTs(date), close)
               ELSE d,
        primary |-> p,
        secondary |-> asked,
        rows |-> IF yields THEN 1 ELSE 0,
        raised |-> p = "baddate"]

MacroIdle == [pc |-> "start", idx |-> 1, log |-> <<>>]

\* main: await ensure_schema()
MacroMain ==
    /\ proc = "macro_fetch" /\ macro.pc = "start"
    /\ macro' = [macro EXCEPT !.pc = "loop"]
    /\ UNCHANGED <<proc, db, candleVars, norm, pollVars, cycle, lastW>>

\* main: await fetch_symbol(sym, url) for the next entry of URLS
MacroFetch ==
    /\ proc = "macro_fetch" /\ macro.pc = "loop" /\ macro.idx <= Len(URLS)
    /\ \E p \in PrimaryOutcomes, s \in SecondaryOutcomes,
          date \in MacroDates, close \in MacroCloses :
         LET r == Fetch_symbol(db, URLS[macro.idx], p, s, date, close)
         IN /\ db' = r.db
            /\ macro' = [pc |-> IF r.raised THEN "crashed" ELSE "loop",
                         idx |-> IF r.raised THEN macro.idx
                                 ELSE macro.idx + 1,
                         log |-> Append(macro.log,
                                   [symbol |-> URLS[macro.idx],
                                    primary |-> r.primary,
                                    secondary |-> r.secondary,
                                    rows |-> r.rows])]
    /\ UNCHANGED <<proc, candleVars, norm, pollVars, cycle, lastW>>

\* main: URLS is exhausted, asyncio.run returns
MacroDone ==
    /\ proc = "macro_fetch" /\ macro.pc = "loop" /\ macro.idx > Len(URLS)
    /\ macro' = [macro EXCEPT !.pc = "done"]
    /\ UNCHANGED <<proc, db, candleVars, norm, pollVars, cycle, lastW>>

---------------------------------------------------------------------------
(* The programs, each its own process.                                     *)

\* Nothing written yet; one run of the harness exercises one table.
NoWrite(table) == [n |-> 0, table |-> table]

NoNorm == [s |-> <<>>]

NoFetch == [sym |-> <<>>, primary |-> "none", fallback |-> "none",
            got |-> FALSE]

PollIdle ==
    /\ FUTURES_MAP = NoAlias
    /\ learned = [s \in CatalogSet |-> "none"]
    /\ fPc = "start" /\ fWake = 0
    /\ fTask = [s \in CatalogSet |-> IdleTask]
    /\ oPc = "start" /\ oWake = 0
    /\ oTask = [s \in CatalogSet |-> ObIdle]

\* No cycle has started yet.
NoCycle == [n |-> 0, start |-> 0, end |-> 0]

CandleIdle ==
    /\ cycle = NoCycle
    /\ invalid = {}
    /\ sPc = "start"
    /\ sIdx = 1
    /\ wakeAt = 0
    /\ lastFetch = NoFetch
    /\ sCycle = NewCycle

Init ==
    /\ proc \in {"candles", "futures", "orderbook", "macro_fetch"}
    /\ db = EmptyDb
    /\ now \in (IF proc = "candles" THEN StartTimes ELSE {0})
    /\ sqlKeep \in (IF proc = "candles" THEN BOOLEAN ELSE {FALSE})
    /\ symbols \in (IF proc \in {"futures", "orderbook"}
                    THEN {<<>>, CATALOG} ELSE {<<>>})
    /\ listed \in (IF proc = "futures" /\ symbols # <<>>
                   THEN {Listing(L) :
                            L \in SUBSET {BTCUSDT, PEPEUSDT, Alt(PEPEUSDT)}}
                   ELSE {{}})
    /\ latest_ts = NowDt(now)
    /\ CandleIdle
    /\ PollIdle
    /\ norm = NoNorm
    /\ macro = MacroIdle
    /\ lastW = NoWrite("candles")

Next ==
    \/ StreamerMain
    \/ StreamerSkip \/ StreamerIter \/ StreamerSleep \/ StreamerWake
    \/ Backfill
    \/ ApiStart \/ ApiGetCandles \/ ApiHealth
    \/ FutMain \/ FutGather \/ FutWake
    \/ \E s \in SymbolSet(symbols) :
          FutStart(s) \/ FutPrimary(s) \/ FutFallback(s)
    \/ ObMain \/ ObGather \/ ObWake
    \/ \E s \in SymbolSet(symbols) : ObStart(s) \/ ObProcess(s)
    \/ MacroMain \/ MacroFetch \/ MacroDone
    \/ Tick

Spec == Init /\ [][Next]_vars

---------------------------------------------------------------------------
(* fetch_for_symbol harness: one cycle of the futures poller against an    *)
(* exchange whose two endpoints may list different contracts.              *)

InitFetch ==
    /\ proc = "futures"
    /\ db = EmptyDb
    /\ now = 0
    /\ sqlKeep = FALSE
    /\ symbols = CATALOG
    /\ listed \in SUBSET (Families \X FutIds)
    /\ latest_ts = NowDt(now)
    /\ CandleIdle
    /\ PollIdle
    /\ norm = NoNorm
    /\ macro = MacroIdle
    /\ lastW = NoWrite("candles")

NextFetch ==
    \/ FutMain \/ FutGather
    \/ \E s \in SymbolSet(symbols) :
          FutStart(s) \/ FutPrimary(s) \/ FutFallback(s)

SpecFetch == InitFetch /\ [][NextFetch]_vars

---------------------------------------------------------------------------
(* Store harness: each writer applied to records drawn from small sets.    *)

MaxRows == 3
MaxRepeat == 3
HSyms == {BTCUSDT, PEPEUSDT}
HTimes == {0, 60000}
HVals == {1, 2}
Writers == {"streamer", "futures", "orderbook", "macro"}

HCandles ==
    [timestamp : HTimes, open : {1}, high : {2}, low : {1}, close : HVals,
     volume : {5}]

\* The tables each writer is called on.
WriterTables(w) ==
    CASE w = "streamer" -> {"candles", "candles_900s"}
      [] w = "futures" -> {"open_interest", "funding_rate"}
      [] w = "orderbook" -> {"ob_imbalance"}
      [] w = "macro" -> {"daily_indices"}


\* The table a write went to, and the row it must have left there.
Written(table, row, before, d) ==
    IF lastW.n > 0 /\ lastW.table = table /\ lastW.row = row
       /\ db = lastW.after
    THEN [lastW EXCEPT !.n = @ + 1]
    ELSE [n |-> 1, table |-> table, row |-> row, before |-> before,
          after |-> d]

HarnessRoom(table) == Len(db[table]) < MaxRows

WriteCandle ==
    /\ proc = "streamer"
    /\ \E table \in {"candles", "candles_900s"}, sym \in HSyms, c \in HCandles :
         /\ table = lastW.table
         /\ HarnessRoom(table)
         /\ db' = Streamer_upsert(db, table, sym, c)
         /\ lastW' = Written(table,
                [symbol |-> sym, timestamp |-> c.timestamp, open |-> c.open,
                 high |-> c.high, low |-> c.low, close |-> c.close,
                 volume |-> c.volume], db, db')
         /\ lastW'.n <= MaxRepeat
    /\ UNCHANGED <<proc, progVars>>

WriteFutures ==
    /\ proc = "futures"
    /\ \E table \in {"open_interest", "funding_rate"}, sym \in HSyms,
          ts \in HTimes, v \in HVals :
         /\ table = lastW.table
         /\ HarnessRoom(table)
         /\ db' = Futures_upsert(db, table, sym, ts, v)
         /\ lastW' = Written(table,
                IF table = "open_interest"
                THEN [symbol |-> sym, ts |-> ts, oi |-> v]
                ELSE [symbol |-> sym, ts |-> ts, rate |-> v], db, db')
         /\ lastW'.n <= MaxRepeat
    /\ UNCHANGED <<proc, progVars>>

WriteOb ==
    /\ proc = "orderbook"
    /\ \E sym \in HSyms, ts \in HTimes, b \in HVals, a \in HVals :
         /\ HarnessRoom("ob_imbalance")
         /\ db' = Ob_store(db, sym, ts, b, a)
         /\ lastW' = Written("ob_imbalance",
                [symbol |-> sym, ts |-> ts, bidVol |-> b, askVol |-> a],
                db, db')
         /\ lastW'.n <= MaxRepeat
    /\ UNCHANGED <<proc, progVars>>

WriteMacro ==
    /\ proc = "macro"
    /\ \E sym \in {"DXY", "VIX"}, ts \in HTimes, v \in HVals :
         /\ HarnessRoom("daily_indices")
         /\ db' = Macro_upsert(db, sym, ts, v)
         /\ lastW' = Written("daily_indices",
                [symbol |-> sym, ts |-> ts, value |-> v], db, db')
         /\ lastW'.n <= MaxRepeat
    /\ UNCHANGED <<proc, progVars>>

InitStore ==
    /\ proc \in Writers
    /\ db = EmptyDb
    /\ lastW \in {NoWrite(t) : t \in WriterTables(proc)}
    /\ now = 0 /\ sqlKeep = FALSE /\ latest_ts = NowDt(0)
    /\ CandleIdle
    /\ symbols = <<>> /\ listed = {} /\ PollIdle
    /\ norm = NoNorm
    /\ macro = MacroIdle

NextStore == WriteCandle \/ WriteFutures \/ WriteOb \/ WriteMacro

SpecStore == InitStore /\ [][NextStore]_vars

---------------------------------------------------------------------------
(* Backfill harness: a fixed set of 1-minute rows put into candles in      *)
(* every order, the aggregation run at any point and any number of times.  *)

SourceRows ==
    { [sym |-> BTCUSDT, c |-> Kline(0, Feed[1])],
      [sym |-> BTCUSDT, c |-> Kline(KLINE_MS, Feed[2])],
      [sym |-> BTCUSDT, c |-> Kline(2 * KLINE_MS, Feed[3])],
      [sym |-> BTCUSDT, c |-> Kline(BACKFILL_MS, Feed[2])],
      [sym |-> K1000PEPEUSDT, c |-> Kline(KLINE_MS, Feed[3])] }

InsertSource ==
    /\ proc = "backfill"
    /\ \E r \in SourceRows :
         /\ \A x \in RowsOf(db["candles"]) :
               KeyOf(x) # <<r.sym, r.c.timestamp>>
         /\ db' = Streamer_upsert(db, "candles", r.sym, r.c)
    /\ UNCHANGED <<proc, progVars, lastW>>

InitBackfill ==
    /\ proc = "backfill"
    /\ db = EmptyDb
    /\ now = 0
    /\ sqlKeep \in BOOLEAN
    /\ latest_ts = NowDt(now)
    /\ CandleIdle
    /\ symbols = <<>> /\ listed = {} /\ PollIdle
    /\ norm = NoNorm
    /\ macro = MacroIdle
    /\ lastW = NoWrite("candles")

NextBackfill == InsertSource \/ Backfill

SpecBackfill == InitBackfill /\ [][NextBackfill]_vars

---------------------------------------------------------------------------
(* _to_dt harness: a seconds value s and the milliseconds value 1000 * s   *)
(* normalized side by side.                                                *)

NormSpan == 50

\* Seconds values: around 1e9 (where 1000 * s crosses 1e12), the first
\* seconds of 1970, November 2023, the last second of year 9999 and the
\* one after it.
SecInputs ==
    {Big(n) : n \in (1000000000 - NormSpan)..(1000000000 + NormSpan)}
    \cup {Big(n) : n \in 0..NormSpan}
    \cup {Big(1700000000), Big(EpochSec), MaxDatetimeSec,
          BigAddSmall(MaxDatetimeSec, 1)}

Normalize ==
    /\ proc = "to_dt"
    /\ \E s \in SecInputs :
         norm' = [s |-> s,
                  ofSec |-> To_dt(s, NowDt(now)),
                  ofMs |-> To_dt(BigTimes1000(s), NowDt(now))]
    /\ UNCHANGED <<proc, db, candleVars, pollVars, lastW, cycle, macro>>

InitToDt ==
    /\ proc = "to_dt"
    /\ db = EmptyDb
    /\ now = 0
    /\ sqlKeep = FALSE
    /\ latest_ts = NowDt(now)
    /\ CandleIdle
    /\ symbols = <<>> /\ listed = {} /\ PollIdle
    /\ norm = NoNorm
    /\ macro = MacroIdle
    /\ lastW = NoWrite("candles")

NextToDt == Normalize

SpecToDt == InitToDt /\ [][NextToDt]_vars

---------------------------------------------------------------------------
(* C1  Idempotent upsert: after a record r has been upserted N >= 1 times  *)
(* in a row by any writer, its table holds exactly one row at r's key,     *)
(* that row is r, the rows at every other key are the rows that were       *)
(* there before the first of the N writes (in the same order), every       *)
(* other table is untouched, and the database is the one the first write   *)
(* left.                                                                   *)
C1_IdempotentUpsert ==
    lastW.n >= 1 =>
        LET t == db[lastW.table]
            others(s) == SelectSeq(s, LAMBDA r : KeyOf(r) # KeyOf(lastW.row))
        IN /\ Cardinality({i \in 1..Len(t) : KeyOf(t[i]) = KeyOf(lastW.row)}) = 1
           /\ \E i \in 1..Len(t) : t[i] = lastW.row
           /\ others(t) = others(lastW.before[lastW.table])
           /\ \A x \in Tables \ {lastW.table} : db[x] = lastW.before[x]
           /\ db = lastW.after

\* A record has been upserted three times running over a key that already
\* held a different row, next to a row at another key.
C1_Witness ==
    /\ lastW.n >= 3
    /\ \E i \in 1..Len(lastW.before[lastW.table]) :
          /\ KeyOf(lastW.before[lastW.table][i]) = KeyOf(lastW.row)
          /\ lastW.before[lastW.table][i] # lastW.row
    /\ Len(db[lastW.table]) >= 2

---------------------------------------------------------------------------
\* The identifiers a step of symbol s's coroutine newly queried.
NewCalls(s) ==
    LET old == IF fTask[s].pc = "idle" THEN 0 ELSE Len(fTask[s].calls)
    IN {fTask'[s].calls[i] : i \in (old + 1)..Len(fTask'[s].calls)}

(* C2  Resolver fallback in fetch_for_symbol: when the primary try of a    *)
(* symbol ended on "invalid symbol" and the try of "1000" + symbol         *)
(* succeeded, that try queried the fallback identifier and FUTURES_MAP     *)
(* holds it as the symbol's alias; once the alias is held it stays, and    *)
(* every identifier queried for the symbol from then on is the alias (no   *)
(* call with the primary identifier); no step of fetch_for_symbol puts     *)
(* anything in an invalid-symbol set.                                      *)
C2_ResolverFallback ==
    [][ \A s \in CatalogSet :
          /\ (fTask[s].pc = "fallback" /\ fTask[s].r1 = "raised"
                /\ fTask'[s].r2 = "true")
              => /\ fTask[s].calls[Len(fTask[s].calls)] = Alt(s)
                 /\ FUTURES_MAP'[s] = Some(Alt(s))
          /\ FUTURES_MAP[s] = Some(Alt(s))
              => /\ FUTURES_MAP'[s] = Some(Alt(s))
                 /\ NewCalls(s) \subseteq {Alt(s)}
          /\ fTask'[s] # fTask[s] => (invalid' = invalid /\ s \notin invalid') ]_vars

\* The alias of a symbol was learned after an "invalid symbol" answer, and
\* a later fetch of the symbol has run on the alias alone.
C2_Witness ==
    \E s \in CatalogSet :
        /\ learned[s] = "raised"
        /\ FUTURES_MAP[s] = Some(Alt(s))
        /\ fTask[s].pc = "done"
        /\ fTask[s].calls = <<Alt(s)>>

---------------------------------------------------------------------------
(* C3  Resolver blacklist, in the candle streamer (the program that keeps  *)
(* an invalid set): once the call for a symbol and the call for its        *)
(* fallback both came back "Invalid symbol", the symbol is in              *)
(* self.invalid; nothing ever leaves self.invalid; and an iteration of     *)
(* the loop that meets a symbol of self.invalid makes no exchange call.    *)
C3_Blacklist ==
    [][ /\ (lastFetch'.primary = "invalid" /\ lastFetch'.fallback = "invalid")
            => lastFetch'.sym \in invalid'
        /\ invalid \subseteq invalid'
        /\ (sIdx' = sIdx + 1 /\ TOKENS[sIdx] \in invalid)
            => (lastFetch'.sym = TOKENS[sIdx]
                /\ lastFetch'.primary = "skipped"
                /\ db' = db) ]_vars

\* Both lookups of 1000PEPEUSDT failed with "Invalid symbol"; it is
\* blacklisted.
C3_Witness ==
    /\ lastFetch.sym = K1000PEPEUSDT
    /\ lastFetch.primary = "invalid" /\ lastFetch.fallback = "invalid"
    /\ K1000PEPEUSDT \in invalid

---------------------------------------------------------------------------
(* C4  Cycle isolation: no coroutine of a symbol ends on an exception and  *)
(* no scheduler loop dies of one; when a cycle is over (the loop sleeps),  *)
(* every catalog symbol the loop does not skip as blacklisted was          *)
(* attempted in it, whatever became of the others, and every answer that   *)
(* carried data is a row of its table.                                     *)
C4_CycleIsolation ==
    /\ fPc # "crashed" /\ oPc # "crashed"
    /\ \A s \in CatalogSet : fTask[s].pc # "raised" /\ oTask[s].pc # "raised"
    /\ fPc = "sleep" =>
          \A s \in SymbolSet(symbols) :
             /\ fTask[s].pc = "done" /\ fTask[s].calls # <<>>
             /\ \A w \in fTask[s].wrote :
                   \E r \in RowsOf(db[w[1]]) : r.symbol = s /\ r.ts = w[2]
    /\ oPc = "sleep" =>
          \A s \in SymbolSet(symbols) :
             /\ oTask[s].pc = "done"
             /\ oTask[s].res = "fetched" =>
                   \E r \in RowsOf(db["ob_imbalance"]) :
                      r.symbol = s /\ r.ts = oTask[s].at
    /\ sPc = "sleep" =>
          \A s \in TokenSet :
             /\ sCycle[s].st # "pending"
             /\ sCycle[s].st = "skipped" => s \in invalid
             /\ sCycle[s].st = "fetched" =>
                   \E r \in RowsOf(db["candles"]) :
                      r.symbol = s /\ r.timestamp = sCycle[s].ts

\* A futures cycle is over in which both tries of BTCUSDT ended on
\* "invalid symbol" and PEPEUSDT's answers were stored.
C4_Witness ==
    /\ fPc = "sleep"
    /\ fTask[BTCUSDT].r1 = "raised" /\ fTask[BTCUSDT].r2 = "raised"
    /\ fTask[PEPEUSDT].wrote # {}

---------------------------------------------------------------------------
NewestCandle ==
    CHOOSE t \in {r.timestamp : r \in RowsOf(db["candles"])} :
        \A r \in RowsOf(db["candles"]) : r.timestamp <= t

(* C5  Health staleness: whenever the newest row of candles is more than   *)
(* 120 s older than the clock, health() answers ok = false.                *)
C5_HealthStaleness ==
    (db["candles"] # <<>> /\ now - NewestCandle > FRESH_SEC * 1000)
        => ~Health(now, latest_ts).ok

---------------------------------------------------------------------------
TableOfTf(tf) == IF tf = "15m" THEN "candles_900s" ELSE "candles"

C6_Expected(sym, tf, limit) ==
    LET S == {r \in RowsOf(db[TableOfTf(tf)]) : r.symbol = sym}
        n == Min(limit, Cardinality(S))
        out == Get_candles(db, sym, tf, limit)
        got == {out.candles[i].ts : i \in 1..Len(out.candles)}
    IN /\ Len(out.candles) = n
       /\ \A i \in 1..(Len(out.candles) - 1) :
             out.candles[i].ts < out.candles[i + 1].ts
       /\ \A i \in 1..Len(out.candles) :
             \E r \in S :
                /\ r.timestamp = out.candles[i].ts
                /\ r.open = out.candles[i].open
                /\ r.high = out.candles[i].high
                /\ r.low = out.candles[i].low
                /\ r.close = out.candles[i].close
                /\ r.volume = out.candles[i].vol
       /\ \A r \in S : r.timestamp \notin got
             => \A t \in got : r.timestamp < t
       /\ out.latest_time =
             IF out.candles = <<>> THEN None
             ELSE Some(out.candles[Len(out.candles)].ts)

(* C6  get_candles(symbol, granularity, limit) returns the min(limit, n)   *)
(* newest rows of the symbol from the table of the requested granularity   *)
(* (candles for "1m", candles_900s for "15m"), oldest first, and           *)
(* latest_time is the timestamp of the last of them, or None.              *)
C6_GetCandles ==
    \A sym \in TokenSet, tf \in Tfs, limit \in Limits :
        C6_Expected(sym, tf, limit)

---------------------------------------------------------------------------
BucketIs900000(key, t) ==
    /\ key = (t \div 900000) * 900000
    /\ key % 900000 = 0
    /\ key <= t /\ t < key + 900000

(* C7  Bucket determinism: for the timestamp t of every candle the store   *)
(* holds, and for t = 1 700 000 123 456 (EpochMs + 23456), the streamer's  *)
(* bucket key and the backfill's bucket key are both                       *)
(* floor(t / 900000) * 900000: a multiple of 900000 with                   *)
(* key <= t < key + 900000.                                                *)
C7_BucketDeterminism ==
    \A t \in {r.timestamp : r \in RowsOf(db["candles"])} \cup {23456} :
        /\ BucketIs900000(StreamerBucket(t), t)
        /\ BucketIs900000(BackfillBucket(t), t)

---------------------------------------------------------------------------
RECURSIVE SumVolume(_)
SumVolume(S) ==
    IF S = {} THEN 0
    ELSE LET r == CHOOSE x \in S : TRUE IN r.volume + SumVolume(S \ {r})

IsFoldOf(row, S) ==
    /\ \E r \in S : r.open = row.open /\ \A x \in S : r.timestamp <= x.timestamp
    /\ \E r \in S : r.close = row.close /\ \A x \in S : x.timestamp <= r.timestamp
    /\ \E r \in S : r.high = row.high
    /\ \A r \in S : r.high <= row.high
    /\ \E r \in S : r.low = row.low
    /\ \A r \in S : row.low <= r.low
    /\ row.volume = SumVolume(S)

BucketMembers(sym, b) ==
    {r \in RowsOf(db["candles"]) :
        r.symbol = sym /\ (r.timestamp \div 900000) * 900000 = b}

(* C8  OHLCV fold: for every symbol and 15-minute bucket that candles has  *)
(* rows of, candles_900s holds at (symbol, bucket start) the row with the  *)
(* open of the earliest of them, the highest high, the lowest low, the     *)
(* close of the latest and the sum of the volumes.                         *)
C8_FoldCorrect ==
    \A c \in RowsOf(db["candles"]) :
        LET b == (c.timestamp \div 900000) * 900000
        IN \E row \in RowsOf(db["candles_900s"]) :
              /\ row.symbol = c.symbol /\ row.timestamp = b
              /\ IsFoldOf(row, BucketMembers(c.symbol, b))

---------------------------------------------------------------------------
RowLess(a, b) ==
    \/ SymRank(a.symbol) < SymRank(b.symbol)
    \/ a.symbol = b.symbol /\ a.timestamp < b.timestamp

RECURSIVE InOrder(_)
InOrder(S) ==
    IF S = {} THEN <<>>
    ELSE LET m == CHOOSE x \in S : \A y \in S \ {x} : RowLess(x, y)
         IN <<m>> \o InOrder(S \ {m})

---------------------------------------------------------------------------
(* C10  Timestamp normalization, as first stated: a seconds value s and    *)
(* the milliseconds value 1000 * s normalize to the same instant.          *)
C10_SameInstant ==
    norm # NoNorm => norm.ofSec = norm.ofMs

(* C10 as amended: for 1e9 < s <= 253402300799 (the last second of year    *)
(* 9999), s and 1000 * s both normalize to second s exactly; 1700000000    *)
(* and 1700000000000 are such a pair.                                      *)
C10_SameInstantInRange ==
    (norm # NoNorm /\ BigGt(norm.s, Big(1000000000))
                   /\ ~BigGt(norm.s, MaxDatetimeSec))
        => /\ norm.ofSec = norm.ofMs
           /\ norm.ofSec = Datetime(norm.s, 0)

\* 1700000000 and 1700000000000 have been normalized, to the same second.
C10_Witness ==
    /\ norm # NoNorm
    /\ norm.s = Big(1700000000)
    /\ norm.ofMs = Datetime(Big(1700000000), 0)
    /\ norm.ofSec = norm.ofMs

---------------------------------------------------------------------------
(* C11  Transient errors: a fetch whose answer was an error other than     *)
(* "invalid symbol" leaves the symbol out of the invalid set, and no alias *)
(* is recorded in a fetch whose primary try failed on such errors alone.   *)
C11_TransientRetry ==
    /\ lastFetch.primary = "error" => lastFetch.sym \notin invalid
    /\ \A s \in CatalogSet : learned[s] # "false"

---------------------------------------------------------------------------
(* C12  Fallback only after "unknown instrument": within one fetch of a    *)
(* symbol the fallback identifier is queried only when the primary lookup  *)
(* ended on "invalid symbol", and at most one fallback is queried.         *)
C12_FallbackOnlyAfterInvalid ==
    /\ lastFetch.fallback # "none" => lastFetch.primary = "invalid"
    /\ \A s \in CatalogSet :
          /\ Len(fTask[s].calls) <= 2
          /\ Len(fTask[s].calls) = 2 => fTask[s].r1 = "raised"

---------------------------------------------------------------------------
\* When the cycle after one that ran from start to end is due, the interval
\* being measured from the cycle's start and an overrun being caught up
\* without a sleep.
DueFromStart(start, end, interval) ==
    IF end - start <= interval THEN start + interval ELSE end

(* C13  Cycle cadence: while a poller sleeps between two cycles, its sleep *)
(* ends one interval after the start of the cycle just finished, or at     *)
(* once when that cycle overran the interval.                              *)
C13_CycleCadence ==
    /\ sPc = "sleep" =>
          wakeAt = DueFromStart(cycle.start, cycle.end, SLEEP_SEC * 1000)
    /\ fPc = "sleep" =>
          fWake = DueFromStart(cycle.start, cycle.end,
                               FUT_INTERVAL_SECONDS * 1000)
    /\ oPc = "sleep" =>
          oWake = DueFromStart(cycle.start, cycle.end,
                               OB_INTERVAL_SECONDS * 1000)

---------------------------------------------------------------------------
\* A coroutine that is waiting for an answer.
InFlight(task) == task.pc \in {"primary", "fallback", "fetching"}

(* C14  Cycles of the futures and order-book pollers never overlap: while  *)
(* a fetch is in flight its scheduler is inside gather (the cycle has not  *)
(* ended), a new cycle starts only when no fetch is in flight, and a fetch *)
(* in flight is never started again.                                       *)
C14_NoOverlap ==
    [][ \A s \in CatalogSet :
          /\ InFlight(fTask'[s]) => fPc' = "gather"
          /\ InFlight(oTask'[s]) => oPc' = "gather"
          /\ cycle'.n # cycle.n => ~InFlight(fTask[s]) /\ ~InFlight(oTask[s])
          /\ InFlight(fTask[s]) =>
                /\ fTask'[s].pc # "idle"
                /\ fTask[s].pc = "fallback" => fTask'[s].pc # "primary"
          /\ InFlight(oTask[s]) => oTask'[s].pc # "idle" ]_vars

\* In the second futures cycle one fetch is in flight and the other done.
C14_Witness ==
    /\ proc = "futures" /\ cycle.n = 2
    /\ InFlight(fTask[BTCUSDT])
    /\ fTask[PEPEUSDT].pc = "done"

---------------------------------------------------------------------------
(* C15  Within a cycle every scheduler dispatches the fetches of all its   *)
(* symbols without waiting for one another: no symbol's fetch (and store)  *)
(* of the cycle has finished while the fetch of another symbol that is to  *)
(* be fetched in the cycle has not yet started.                            *)
C15_ConcurrentDispatch ==
    /\ \A s \in SymbolSet(symbols), u \in SymbolSet(symbols) :
          /\ fTask[s].pc \in {"done", "raised"} => fTask[u].pc # "idle"
          /\ oTask[s].pc \in {"done", "raised"} => oTask[u].pc # "idle"
    /\ \A s \in TokenSet, u \in TokenSet :
          (sPc = "loop" /\ sCycle[s].st # "pending" /\ u \notin invalid)
             => sCycle[u].st # "pending"

---------------------------------------------------------------------------
\* A scheduler that has left its loop for good.
Stopped(pc) == pc \in {"exit", "noclient", "crashed"}

(* C16  Terminal states: a poll scheduler is stopped if and only if its    *)
(* catalog was empty at startup or the exchange client could not be made;  *)
(* on an empty catalog it stops, and once it runs no fetch or store        *)
(* outcome stops it.                                                       *)
C16_TerminalStates ==
    /\ Stopped(fPc) => (symbols = <<>> \/ fPc = "noclient")
    /\ Stopped(oPc) => (symbols = <<>> \/ oPc = "noclient")
    /\ Stopped(sPc) => (TOKENS = <<>> \/ sPc = "noclient")
    /\ (proc = "futures" /\ symbols = <<>> /\ fPc # "start") => fPc = "exit"
    /\ (proc = "orderbook" /\ symbols = <<>> /\ oPc # "start") => oPc = "exit"

---------------------------------------------------------------------------
\* The rows of table t stored under symbol s.
StoredFor(t, s) == {r \in RowsOf(db[t]) : r.symbol = s}

\* In the first _try of symbol s exactly one family was available.
OnlyAvailable(s, family, other) ==
    /\ fTask[s].ans # <<>>
    /\ fTask[s].ans[IF family = "open_interest" THEN 1 ELSE 2] = "data"
    /\ fTask[s].ans[IF other = "open_interest" THEN 1 ELSE 2] # "data"

(* C17  Partial success in the futures fetcher: when exactly one of        *)
(* open interest and funding rate is available for the queried identifier, *)
(* the available one is stored, nothing is stored for the other, the fetch *)
(* counts as a success, no fallback is attempted and no alias is recorded. *)
C17_PartialSuccess ==
    \A s \in SymbolSet(symbols), family \in Families, other \in Families :
       OnlyAvailable(s, family, other) =>
          /\ StoredFor(family, s) # {}
          /\ StoredFor(other, s) = {}
          /\ fTask[s].r1 = "true"
          /\ Len(fTask[s].calls) = 1
          /\ FUTURES_MAP[s] = None

---------------------------------------------------------------------------
(* C18  Macro fallback: for each macro index the secondary source is       *)
(* queried if and only if the primary failed, was empty or was malformed;  *)
(* exactly one row is upserted when either source yields a value; when     *)
(* both fail nothing is written, and the remaining indices are still       *)
(* fetched (no fetch ends the run).                                        *)
C18_MacroFallback ==
    /\ \A i \in 1..Len(macro.log) :
          LET e == macro.log[i]
          IN /\ (e.secondary # "none") <=> (e.primary # "ok")
             /\ (e.primary = "ok" \/ e.secondary = "ok") => e.rows = 1
             /\ (e.primary # "ok" /\ e.secondary # "ok") => e.rows = 0
    /\ macro.pc # "crashed"
    /\ macro.pc = "done" => Len(macro.log) = Len(URLS)

---------------------------------------------------------------------------
(* C19  Every row of open_interest and funding_rate is keyed by a catalog  *)
(* symbol, never by the "1000" alias, whichever identifier was queried.    *)
C19_LogicalKey ==
    \A t \in Families : \A r \in RowsOf(db[t]) :
       r.symbol \in SymbolSet(symbols) /\ ~StartsWith1000(r.symbol)

\* Both tables hold a row of PEPEUSDT that was fetched under the alias
\* cached in an earlier cycle.
C19_Witness ==
    /\ proc = "futures"
    /\ fTask[PEPEUSDT].q = Alt(PEPEUSDT)
    /\ fTask[PEPEUSDT].r1 = "true"
    /\ fTask[PEPEUSDT].ans = <<"data", "data">>
    /\ \E r \in RowsOf(db["open_interest"]) :
          r.symbol = PEPEUSDT /\ r.ts = cycle.start

---------------------------------------------------------------------------
\* The timestamps of the candles stored for symbol s, and the newest one.
StampsOf(s) == {r.timestamp : r \in {x \in RowsOf(db["candles"]) : x.symbol = s}}
NewestOf(s) == CHOOSE t \in StampsOf(s) : \A u \in StampsOf(s) : u <= t

(* C20  latest_ts, which health() reads, changes only in a get_candles     *)
(* call that returns at least one row, and is then the time of the newest  *)
(* row stored for the requested symbol; health(), a get_candles with an    *)
(* empty result and every write of the ingestion processes leave it        *)
(* unchanged.  (Importing the module sets it to the clock.)                *)
C20_LatestTsFrame ==
    [][ latest_ts' # latest_ts =>
          /\ db' = db /\ now' = now
          /\ \/ latest_ts' = NowDt(now)
             \/ \E s \in TokenSet :
                   /\ StampsOf(s) # {}
                   /\ latest_ts' = To_dt(AbsMs(NewestOf(s)), NowDt(now)) ]_vars

\* Two candles of BTCUSDT are stored and latest_ts is the time of the newer
\* one, which is not the clock.
C20_Witness ==
    /\ Cardinality(StampsOf(BTCUSDT)) >= 2
    /\ latest_ts = To_dt(AbsMs(NewestOf(BTCUSDT)), NowDt(now))
    /\ latest_ts # NowDt(now)

====
